---- MODULE Spec2Model ----
(***************************************************************************)
(* The ingest backend: two drainable queues (QueueWrapper), a pool of      *)
(* Worker processes that aggregate posts into a per-process cache and      *)
(* flush it to the output queue, a pool of Saver processes that persist    *)
(* the flushed messages, a remote producer that puts posts on the input    *)
(* queue, and the coordinator's shutdown_gracefully hook.                   *)
(***************************************************************************)
EXTENDS Integers, Sequences, FiniteSets, Bags, TLC

(* ------------------------------ bounds --------------------------------- *)

\* Number of posts the remote producer offers to the input queue.
MaxRecords == 2

\* --agg_cache_size: the flush threshold handed to every Worker.
CacheSize == 1

\* Number of DataProcessor / persist_fn exceptions the environment may raise.
MaxFailures == 1

\* Longest list of posts a client hands to put_many in one call.
MaxBatch == 3

\* transform_for_database: most words in the Counter of the post, highest
\* count of a word, highest article_count, and highest top_n given.
MaxWords == 3
MaxWordCount == 2
MaxArticles == 2
MaxTopGiven == 3

(* ----------------------------- constants ------------------------------- *)

\* top_n default of ProcessedPost.transform_for_database.
TopN == 2000

Workers == {"w1", "w2"}
Savers == {"s1", "s2"}
Procs == Workers \cup Savers

\* start_processes returns the processes in list order; shutdown iterates it.
iprocs == <<"w1", "w2">>
oprocs == <<"s1", "s2">>

IQ == "iqueue"
OQ == "oqueue"
QueueNames == {IQ, OQ}

\* The sentinel string 'STOP'.
STOP == <<"STOP">>

\* A Post as it travels on the input queue.
Post(r) == <<"post", r>>

Records == 1 .. MaxRecords

(* ------------------------ models.py: pure part -------------------------- *)

\* Post.publication of the r-th post offered: labels that differ in case and
\* surrounding blanks ("A", "a ", " B", "b"), repeated.
Publication(r) ==
  CASE r % 4 = 1 -> <<"A">>
    [] r % 4 = 2 -> <<"a", " ">>
    [] r % 4 = 3 -> <<" ", "B">>
    [] OTHER     -> <<"b">>

\* DataProcessor.entities of the r-th post: a Counter in insertion order,
\* as a sequence of <<word, count>>.
EntitiesOf(r) ==
  IF r % 8 = 5 THEN << <<"y", 1>>, <<"x", 2>> >>
  ELSE IF r % 8 = 6 THEN << <<"y", 2>> >>
  ELSE IF r % 2 = 1 THEN << <<"x", 1>> >>
  ELSE <<>>

\* str.lower on one character.
LowerChar(c) ==
  CASE c = "A" -> "a"
    [] c = "B" -> "b"
    [] OTHER   -> c

Lower(s) == [i \in 1 .. Len(s) |-> LowerChar(s[i])]

RECURSIVE LStrip(_)
LStrip(s) == IF s /= <<>> /\ Head(s) = " " THEN LStrip(Tail(s)) ELSE s

RECURSIVE RStrip(_)
RStrip(s) ==
  IF s /= <<>> /\ s[Len(s)] = " " THEN RStrip(SubSeq(s, 1, Len(s) - 1)) ELSE s

Strip(s) == RStrip(LStrip(s))

\* A key that is the label as it came.
pub_key_raw(post) == post.publication

\* ProcessedPost.pub_key
pub_key(post) == Lower(Strip(post.publication))

\* ProcessedPost(): the defaultdict's default value.  publication is None.
NoPublication == <<"None">>

DefaultProcessedPost ==
  [publication |-> NoPublication, entities |-> <<>>, article_count |-> 0]

\* DataProcessor.process_message: the ProcessedPost built from a Post.
process_message(r) ==
  [publication |-> Publication(r), entities |-> EntitiesOf(r), article_count |-> 0]

\* Index of word w in Counter c, 0 when absent.
IndexOfWord(c, w) ==
  IF \E i \in 1 .. Len(c) : c[i][1] = w
  THEN CHOOSE i \in 1 .. Len(c) : c[i][1] = w
  ELSE 0

\* Counter.__iadd__: add every count of other, new words appended in order.
RECURSIVE CounterAdd(_, _)
CounterAdd(c, other) ==
  IF other = <<>> THEN c
  ELSE LET w == Head(other)[1]
           n == Head(other)[2]
           i == IndexOfWord(c, w)
           c1 == IF i = 0 THEN Append(c, <<w, n>>)
                 ELSE [c EXCEPT ![i] = <<w, c[i][2] + n>>]
       IN CounterAdd(c1, Tail(other))

\* An addition that keeps the entities of the other post only.
PostAddLast(self, other) ==
  [publication   |-> other.publication,
   entities      |-> other.entities,
   article_count |-> self.article_count + 1]

\* ProcessedPost.__add__
PostAdd(self, other) ==
  [publication   |-> other.publication,
   entities      |-> CounterAdd(self.entities, other.entities),
   article_count |-> self.article_count + 1]

\* Insert pair p into the sequence s sorted by count descending, after every
\* pair with a count >= its own (a stable sort).
RECURSIVE InsertByCount(_, _)
InsertByCount(s, p) ==
  IF s = <<>> THEN <<p>>
  ELSE IF Head(s)[2] >= p[2] THEN <<Head(s)>> \o InsertByCount(Tail(s), p)
  ELSE <<p>> \o s

RECURSIVE SortByCount(_)
SortByCount(c) ==
  IF c = <<>> THEN <<>>
  ELSE InsertByCount(SortByCount(SubSeq(c, 1, Len(c) - 1)), c[Len(c)])

\* The first n pairs of the Counter as they stand, not sorted.
most_common_unsorted(c, n) ==
  SubSeq(c, 1, IF Len(c) < n THEN Len(c) ELSE n)

\* Counter.most_common(n)
most_common(c, n) ==
  LET s == SortByCount(c) IN SubSeq(s, 1, IF Len(s) < n THEN Len(s) ELSE n)

\* The per-entity message and the count-increment message of a post.
EntityMessage(post, p) == <<pub_key(post), "ent", <<"hash", p[1]>>, <<p[1], p[2]>> >>

CountMessage(post) == <<pub_key(post), "None", <<>>, <<post.article_count>> >>

\* A transform that yields the per-entity messages only.
transform_entities_only(post, top_n) ==
  LET top == most_common(post.entities, top_n)
  IN [i \in 1 .. Len(top) |-> EntityMessage(post, top[i])]

\* ProcessedPost.transform_for_database
transform_for_database(post, top_n) ==
  LET top == most_common(post.entities, top_n)
  IN [i \in 1 .. Len(top) |-> EntityMessage(post, top[i])] \o <<CountMessage(post)>>

IsCountMessage(m) == Len(m) = 4 /\ m[2] = "None"

(* ------------------------------- state --------------------------------- *)

VARIABLES
  q,          \* QueueWrapper.q: the transport of each queue, head first
  pw,         \* QueueWrapper._prevent_writes: the shared Event of each queue
  ppc,        \* producer: position inside put_many / put
  pobjs,      \* producer: the objs of put_many not yet put
  offered,    \* producer: number of posts offered so far
  wpc,        \* worker: position inside Worker.run
  wmsg,       \* worker: the msg returned by iq.get()
  cache,      \* Worker._cache: <<pub_key, ProcessedPost>> in insertion order
  count,      \* Worker._count
  wout,       \* worker: messages flush_cache has still to put
  wfinal,     \* worker: TRUE inside the flush_cache after the loop
  wexit,      \* worker: how the process ended ("running" while alive)
  wlost,      \* worker: posts in the cache or in an unfinished flush at its end
  spc,        \* saver: position inside Saver.run
  smsg,       \* saver: the msg returned by q.get()
  sexit,      \* saver: how the process ended ("running" while alive)
  sig,        \* SIGTERM per process: "none", "pending" or "handled"
  cpc,        \* coordinator: position inside shutdown_gracefully
  cpair,      \* coordinator: index of the (queue, processes) pair
  cidx,       \* coordinator: index inside the list comprehension
  hin,        \* history: every object q.put appended, per queue
  hout,       \* history: every object q.get returned, per queue
  late,       \* history: objects QueueWrapper.put appended with the Event set
  accepted,   \* history: posts QueueWrapper.put appended with the Event clear
  merged,     \* history: how often each post was merged into a cache
  mergedBy,   \* history: number of posts the running worker merged
  flushes,    \* history: number of threshold flushes of the running worker
  dropped,    \* history: number of objects put discarded, per queue
  persisted,  \* history: bag of messages handed to persist_fn
  failures,   \* history: number of exceptions raised by the collaborators
  started,    \* history: the get() in progress started with the Event set and
              \* q empty
  cachedRecs, \* history: the posts merged into Worker._cache since reset_cache
  tpost,      \* transform_for_database: self, the ProcessedPost it is called on
  ttop_n,     \* transform_for_database: the argument top_n
  tmsgs       \* transform_for_database: the list returned

vars == <<q, pw, ppc, pobjs, offered, wpc, wmsg, cache, count, wout, wfinal,
          wexit, wlost, spc, smsg, sexit, sig, cpc, cpair, cidx, hin, hout, late,
          accepted, merged, mergedBy, flushes, dropped, persisted,
          failures, started, cachedRecs, tpost, ttop_n, tmsgs>>

qvars == <<q, pw, hin, hout, late, accepted, dropped>>
pvars == <<ppc, pobjs, offered>>
wvars == <<wpc, wmsg, cache, cachedRecs, count, wout, wfinal, wexit, wlost,
           merged, mergedBy, flushes>>
svars == <<spc, smsg, sexit, persisted>>
cvars == <<cpc, cpair, cidx>>
tvars == <<tpost, ttop_n, tmsgs>>

\* The two queues handed over in the other order.
queues_swapped == <<OQ, IQ>>

\* register_shutdown_handlers([iq, oq], [iprocs, oprocs])
queues == <<IQ, OQ>>
processes == <<iprocs, oprocs>>

(* --------------------------- messageq.py -------------------------------- *)

\* QueueWrapper.is_writable
is_writable(qn) == ~pw[qn]

\* An Event that a second call clears again.
prevent_writes_toggle(qn) == [pw EXCEPT ![qn] = ~pw[qn]]

\* QueueWrapper.prevent_writes: self._prevent_writes.set(); the Events of
\* the queues after the call on queue qn.
prevent_writes(qn) == [pw EXCEPT ![qn] = TRUE]

\* QueueWrapper.empty / Queue.empty
empty(qn) == q[qn] = <<>>

\* A transport that puts at the head: a LIFO.
TransportPutFront(s, obj) == <<obj>> \o s

\* Queue.put on the transport: appends at the tail.
TransportPut(s, obj) == Append(s, obj)

\* Queue.get on the transport: removes the head.
TransportGet(s) == Tail(s)
TransportNext(s) == Head(s)

\* self.q.put(obj), with the histories of what entered the transport.
QPut(qn, obj, viaPut) ==
  /\ q' = [q EXCEPT ![qn] = TransportPut(q[qn], obj)]
  /\ hin' = [hin EXCEPT ![qn] = Append(hin[qn], obj)]
  /\ late' = IF viaPut /\ pw[qn] THEN [late EXCEPT ![qn] = late[qn] \cup {obj}]
             ELSE late
  /\ accepted' = IF viaPut /\ qn = IQ /\ ~pw[qn] THEN accepted \cup {obj[2]}
                 ELSE accepted

\* main, lines 181-196: the queues and the processes have been started.
PipelineInit ==
  /\ q = [n \in QueueNames |-> <<>>]
  /\ pw = [n \in QueueNames |-> FALSE]
  /\ ppc = "idle"
  /\ pobjs = <<>>
  /\ offered = 0
  /\ wpc = [w \in Workers |-> "get"]
  /\ wmsg = [w \in Workers |-> STOP]
  /\ cache = [w \in Workers |-> <<>>]
  /\ count = [w \in Workers |-> 0]
  /\ wout = [w \in Workers |-> <<>>]
  /\ wfinal = [w \in Workers |-> FALSE]
  /\ wexit = [w \in Workers |-> "running"]
  /\ wlost = [w \in Workers |-> 0]
  /\ spc = [s \in Savers |-> "get"]
  /\ smsg = [s \in Savers |-> STOP]
  /\ sexit = [s \in Savers |-> "running"]
  /\ sig = [p \in Procs |-> "none"]
  /\ cpc = "serve"
  /\ cpair = 1
  /\ cidx = 1
  /\ hin = [n \in QueueNames |-> <<>>]
  /\ hout = [n \in QueueNames |-> <<>>]
  /\ late = [n \in QueueNames |-> {}]
  /\ accepted = {}
  /\ merged = [r \in Records |-> 0]
  /\ mergedBy = [w \in Workers |-> 0]
  /\ flushes = [w \in Workers |-> 0]
  /\ dropped = [n \in QueueNames |-> 0]
  /\ persisted = EmptyBag
  /\ failures = 0
  /\ started = [p \in Procs |-> FALSE]
  /\ cachedRecs = [w \in Workers |-> <<>>]

Init ==
  /\ PipelineInit
  /\ tpost = DefaultProcessedPost
  /\ ttop_n = TopN
  /\ tmsgs = <<>>

(* ----------------- the remote producer (frontend.py) -------------------- *)

\* A client calls iqueue.put(post) or iqueue.put_many(posts) with the next
\* one or two posts.
ProducerCall ==
  /\ ppc = "idle"
  /\ \E n \in 1 .. 2 :
       /\ offered + n <= MaxRecords
       /\ pobjs' = [i \in 1 .. n |-> Post(offered + i)]
       /\ offered' = offered + n
  /\ ppc' = "check"
  /\ UNCHANGED tvars
  /\ UNCHANGED <<qvars, wvars, svars, cvars, sig, failures, started>>

\* QueueWrapper.put, line 37: if self.is_writable; a closed queue discards.
ProducerCheck ==
  /\ ppc = "check"
  /\ IF is_writable(IQ)
     THEN /\ ppc' = "put"
          /\ UNCHANGED <<pobjs, dropped>>
     ELSE /\ pobjs' = Tail(pobjs)
          /\ ppc' = IF Tail(pobjs) = <<>> THEN "idle" ELSE "check"
          /\ dropped' = [dropped EXCEPT ![IQ] = dropped[IQ] + 1]
  /\ UNCHANGED tvars
  /\ UNCHANGED <<q, pw, hin, hout, late, accepted, offered, wvars, svars,
                 cvars, sig, failures, started>>

\* QueueWrapper.put, line 39: self.q.put(obj)
ProducerPut ==
  /\ ppc = "put"
  /\ QPut(IQ, Head(pobjs), TRUE)
  /\ pobjs' = Tail(pobjs)
  /\ ppc' = IF Tail(pobjs) = <<>> THEN "idle" ELSE "check"
  /\ UNCHANGED tvars
  /\ UNCHANGED <<pw, hout, dropped, offered, wvars, svars, cvars, sig,
                 failures, started>>

(* --------------------------- signal delivery ---------------------------- *)

\* CPython runs a Python-level signal handler in the main thread before the
\* next bytecode, and a blocking call it interrupts runs it before it is
\* retried: a process with a SIGTERM pending executes its handler next.
Runs(p) == sig[p] /= "pending"

(* ---------------------------- backend.py: Worker ------------------------ *)

\* Position of pub_key k in the cache, 0 when absent.
CacheIndex(c, k) ==
  IF \E i \in 1 .. Len(c) : c[i][1] = k
  THEN CHOOSE i \in 1 .. Len(c) : c[i][1] = k
  ELSE 0

\* A cache whose slots are named by the label as it came.
CacheMergeRawSlot(c, msg) ==
  LET k == msg.publication
      i == CacheIndex(c, k)
  IN IF i = 0 THEN Append(c, <<k, PostAdd(DefaultProcessedPost, msg)>>)
     ELSE [c EXCEPT ![i] = <<k, PostAdd(c[i][2], msg)>>]

\* Worker.cache, line 66: self._cache[msg.pub_key] += msg on a
\* defaultdict(ProcessedPost).
CacheMerge(c, msg) ==
  LET k == pub_key(msg)
      i == CacheIndex(c, k)
  IN IF i = 0 THEN Append(c, <<k, PostAdd(DefaultProcessedPost, msg)>>)
     ELSE [c EXCEPT ![i] = <<k, PostAdd(c[i][2], msg)>>]

\* Worker.flush_cache, lines 72-73: the messages of every cached post, in
\* the order of self._cache.values().
RECURSIVE FlushMessages(_)
FlushMessages(c) ==
  IF c = <<>> THEN <<>>
  ELSE transform_for_database(Head(c)[2], TopN) \o FlushMessages(Tail(c))

\* Number of posts aggregated in a cache.
CachedPosts(c) ==
  LET RECURSIVE Sum(_)
      Sum(i) == IF i = 0 THEN 0 ELSE c[i][2].article_count + Sum(i - 1)
  IN Sum(Len(c))

\* Worker.count(1), line 56, followed by the comparison of line 86: the new
\* value of the counter after one more post.
CountAfter(n) == n + 1

\* The value of the counter once flush_cache has returned (lines 69-74 leave
\* self._count alone).
CountAfterFlush(n) == n

\* Worker.run, line 89: the loop has ended, flush_cache() is entered.
BeginFinalFlush(w) ==
  /\ wout' = [wout EXCEPT ![w] = FlushMessages(cache[w])]
  /\ wfinal' = [wfinal EXCEPT ![w] = TRUE]
  /\ wpc' = [wpc EXCEPT ![w] = "flush_chk"]

\* The worker process ends; its memory goes with it.  wlost keeps the number
\* of posts that were in a cache flush_cache had not finished with.
WorkerEnd(w, how, lost) ==
  /\ wpc' = [wpc EXCEPT ![w] = "exited"]
  /\ wexit' = [wexit EXCEPT ![w] = how]
  /\ wlost' = [wlost EXCEPT ![w] = lost]
  /\ cache' = [cache EXCEPT ![w] = <<>>]
  /\ cachedRecs' = [cachedRecs EXCEPT ![w] = <<>>]
  /\ count' = [count EXCEPT ![w] = 0]
  /\ wout' = [wout EXCEPT ![w] = <<>>]
  /\ wfinal' = [wfinal EXCEPT ![w] = FALSE]
  /\ wmsg' = [wmsg EXCEPT ![w] = STOP]
  /\ mergedBy' = [mergedBy EXCEPT ![w] = 0]
  /\ flushes' = [flushes EXCEPT ![w] = 0]

\* QueueWrapper.get, line 28, first conjunct of is_drained: the Event is read.
WorkerGetFlag(w) ==
  /\ Runs(w)
  /\ wpc[w] = "get"
  /\ started' = [started EXCEPT ![w] = pw[IQ] /\ empty(IQ)]
  /\ wpc' = [wpc EXCEPT ![w] = IF is_writable(IQ) THEN "q_get" ELSE "get_empty"]
  /\ UNCHANGED tvars
  /\ UNCHANGED <<qvars, pvars, wmsg, cache, cachedRecs, count, wout, wfinal, wexit, wlost,
                 merged, mergedBy, flushes, svars, cvars, sig, failures>>

\* QueueWrapper.get, line 28, second conjunct of is_drained: q.empty() is
\* read; a drained queue returns 'STOP', which ends the loop of line 85.
WorkerGetEmpty(w) ==
  /\ Runs(w)
  /\ wpc[w] = "get_empty"
  /\ IF empty(IQ)
     THEN /\ BeginFinalFlush(w)
          /\ started' = [started EXCEPT ![w] = FALSE]
     ELSE /\ wpc' = [wpc EXCEPT ![w] = "q_get"]
          /\ UNCHANGED <<wout, wfinal, started>>
  /\ UNCHANGED tvars
  /\ UNCHANGED <<qvars, pvars, wmsg, cache, cachedRecs, count, wexit, wlost, merged,
                 mergedBy, flushes, svars, cvars, sig, failures>>

\* QueueWrapper.get, line 31: self.q.get() returns the head of the transport.
WorkerQGet(w) ==
  /\ Runs(w)
  /\ wpc[w] = "q_get"
  /\ ~empty(IQ)
  /\ q' = [q EXCEPT ![IQ] = TransportGet(q[IQ])]
  /\ hout' = [hout EXCEPT ![IQ] = Append(hout[IQ], TransportNext(q[IQ]))]
  /\ started' = [started EXCEPT ![w] = FALSE]
  /\ IF TransportNext(q[IQ]) = STOP
     THEN /\ BeginFinalFlush(w)
          /\ UNCHANGED wmsg
     ELSE /\ wmsg' = [wmsg EXCEPT ![w] = TransportNext(q[IQ])]
          /\ wpc' = [wpc EXCEPT ![w] = "process"]
          /\ UNCHANGED <<wout, wfinal>>
  /\ UNCHANGED tvars
  /\ UNCHANGED <<pw, hin, late, accepted, dropped, pvars, cache, cachedRecs, count, wexit,
                 wlost, merged, mergedBy, flushes, svars, cvars, sig,
                 failures>>

\* Worker.run, lines 86-87: process_message, cache, count and, when the
\* counter equals the cache size, the entry into flush_cache.
WorkerProcess(w) ==
  /\ Runs(w)
  /\ wpc[w] = "process"
  /\ LET r == wmsg[w][2]
         c == CacheMerge(cache[w], process_message(r))
         n == CountAfter(count[w])
     IN /\ cache' = [cache EXCEPT ![w] = c]
        /\ cachedRecs' = [cachedRecs EXCEPT ![w] = Append(cachedRecs[w], r)]
        /\ count' = [count EXCEPT ![w] = n]
        /\ merged' = [merged EXCEPT ![r] = merged[r] + 1]
        /\ mergedBy' = [mergedBy EXCEPT ![w] = mergedBy[w] + 1]
        /\ IF n = CacheSize
           THEN /\ wout' = [wout EXCEPT ![w] = FlushMessages(c)]
                /\ wpc' = [wpc EXCEPT ![w] = "flush_chk"]
                /\ flushes' = [flushes EXCEPT ![w] = flushes[w] + 1]
           ELSE /\ wpc' = [wpc EXCEPT ![w] = "get"]
                /\ UNCHANGED <<wout, flushes>>
  /\ wmsg' = [wmsg EXCEPT ![w] = STOP]
  /\ UNCHANGED tvars
  /\ UNCHANGED <<qvars, pvars, wfinal, wexit, wlost, svars, cvars, sig,
                 failures, started>>

\* processor.process_message raises: nothing in run catches it, the process
\* ends with a nonzero exit code.
WorkerTransformFail(w) ==
  /\ Runs(w)
  /\ wpc[w] = "process"
  /\ failures < MaxFailures
  /\ failures' = failures + 1
  /\ WorkerEnd(w, "failed", CachedPosts(cache[w]))
  /\ UNCHANGED tvars
  /\ UNCHANGED <<qvars, pvars, merged, svars, cvars, sig, started>>

\* flush_cache: the next put of put_many (QueueWrapper.put, line 37), or,
\* after the last one, reset_cache and the return to the loop or exit(0).
WorkerFlushCheck(w) ==
  /\ Runs(w)
  /\ wpc[w] = "flush_chk"
  /\ IF wout[w] = <<>>
     THEN /\ IF wfinal[w]
             THEN WorkerEnd(w, "ok", 0)
             ELSE /\ cache' = [cache EXCEPT ![w] = <<>>]
                  /\ cachedRecs' = [cachedRecs EXCEPT ![w] = <<>>]
                  /\ count' = [count EXCEPT ![w] = CountAfterFlush(count[w])]
                  /\ wpc' = [wpc EXCEPT ![w] = "get"]
                  /\ UNCHANGED <<wout, wfinal, wmsg, wexit, wlost, mergedBy,
                                 flushes>>
          /\ UNCHANGED dropped
     ELSE /\ IF is_writable(OQ)
             THEN /\ wpc' = [wpc EXCEPT ![w] = "flush_put"]
                  /\ UNCHANGED <<wout, dropped>>
             ELSE /\ wout' = [wout EXCEPT ![w] = Tail(wout[w])]
                  /\ dropped' = [dropped EXCEPT ![OQ] = dropped[OQ] + 1]
                  /\ UNCHANGED wpc
          /\ UNCHANGED <<cache, cachedRecs, count, wfinal, wmsg, wexit, wlost, mergedBy,
                         flushes>>
  /\ UNCHANGED tvars
  /\ UNCHANGED <<q, pw, hin, hout, late, accepted, pvars, merged, svars,
                 cvars, sig, failures, started>>

\* QueueWrapper.put, line 39, inside flush_cache.
WorkerFlushPut(w) ==
  /\ Runs(w)
  /\ wpc[w] = "flush_put"
  /\ QPut(OQ, Head(wout[w]), TRUE)
  /\ wout' = [wout EXCEPT ![w] = Tail(wout[w])]
  /\ wpc' = [wpc EXCEPT ![w] = "flush_chk"]
  /\ UNCHANGED tvars
  /\ UNCHANGED <<pw, hout, dropped, pvars, wmsg, cache, cachedRecs, count, wfinal, wexit,
                 wlost, merged, mergedBy, flushes, svars, cvars, sig,
                 failures, started>>

\* Worker.shutdown, line 49: self.outq is no attribute of Worker (lines
\* 40-41 set iq and oq), so the handler raises AttributeError before any
\* put.  It runs in the worker's main thread: inside the try of
\* QueueWrapper.get (lines 30-34) the exception is caught and get returns
\* 'STOP'; anywhere else it ends the process with a nonzero exit code.
WorkerSignal(w) ==
  /\ sig[w] = "pending"
  /\ wexit[w] = "running"
  /\ sig' = [sig EXCEPT ![w] = "handled"]
  /\ started' = [started EXCEPT ![w] = FALSE]
  /\ IF wpc[w] = "q_get"
     THEN /\ BeginFinalFlush(w)
          /\ UNCHANGED <<wexit, wlost, cache, cachedRecs, count, wmsg, mergedBy, flushes>>
     ELSE WorkerEnd(w, "sigerr", CachedPosts(cache[w]))
  /\ UNCHANGED tvars
  /\ UNCHANGED <<qvars, pvars, merged, svars, cvars, failures>>

(* ---------------------------- backend.py: Saver ------------------------- *)

\* The saver process ends.
SaverEnd(s, how) ==
  /\ spc' = [spc EXCEPT ![s] = "exited"]
  /\ sexit' = [sexit EXCEPT ![s] = how]
  /\ smsg' = [smsg EXCEPT ![s] = STOP]

\* QueueWrapper.get, line 28, first conjunct of is_drained.
SaverGetFlag(s) ==
  /\ Runs(s)
  /\ spc[s] = "get"
  /\ started' = [started EXCEPT ![s] = pw[OQ] /\ empty(OQ)]
  /\ spc' = [spc EXCEPT ![s] = IF is_writable(OQ) THEN "q_get" ELSE "get_empty"]
  /\ UNCHANGED tvars
  /\ UNCHANGED <<qvars, pvars, wvars, smsg, sexit, persisted, cvars, sig,
                 failures>>

\* QueueWrapper.get, line 28, second conjunct of is_drained; 'STOP' ends the
\* loop of line 109 and run reaches exit(0).
SaverGetEmpty(s) ==
  /\ Runs(s)
  /\ spc[s] = "get_empty"
  /\ IF empty(OQ)
     THEN /\ SaverEnd(s, "ok")
          /\ started' = [started EXCEPT ![s] = FALSE]
     ELSE /\ spc' = [spc EXCEPT ![s] = "q_get"]
          /\ UNCHANGED <<sexit, smsg, started>>
  /\ UNCHANGED tvars
  /\ UNCHANGED <<qvars, pvars, wvars, persisted, cvars, sig, failures>>

\* QueueWrapper.get, line 31: self.q.get() returns the head of the transport.
SaverQGet(s) ==
  /\ Runs(s)
  /\ spc[s] = "q_get"
  /\ ~empty(OQ)
  /\ q' = [q EXCEPT ![OQ] = TransportGet(q[OQ])]
  /\ hout' = [hout EXCEPT ![OQ] = Append(hout[OQ], TransportNext(q[OQ]))]
  /\ started' = [started EXCEPT ![s] = FALSE]
  /\ IF TransportNext(q[OQ]) = STOP
     THEN SaverEnd(s, "ok")
     ELSE /\ smsg' = [smsg EXCEPT ![s] = TransportNext(q[OQ])]
          /\ spc' = [spc EXCEPT ![s] = "persist"]
          /\ UNCHANGED sexit
  /\ UNCHANGED tvars
  /\ UNCHANGED <<pw, hin, late, accepted, dropped, pvars, wvars, persisted,
                 cvars, sig, failures>>

\* A saver that hands its message to persist_fn twice.
SaverPersistTwice(s) ==
  /\ Runs(s)
  /\ spc[s] = "persist"
  /\ persisted' = persisted (+) SetToBag({smsg[s]}) (+) SetToBag({smsg[s]})
  /\ spc' = [spc EXCEPT ![s] = "get"]
  /\ smsg' = [smsg EXCEPT ![s] = STOP]
  /\ UNCHANGED tvars
  /\ UNCHANGED <<qvars, pvars, wvars, sexit, cvars, sig, failures, started>>

\* Saver.run, line 111: self.persist_fn(self.client, *msg)
SaverPersist(s) ==
  /\ Runs(s)
  /\ spc[s] = "persist"
  /\ persisted' = persisted (+) SetToBag({smsg[s]})
  /\ spc' = [spc EXCEPT ![s] = "get"]
  /\ smsg' = [smsg EXCEPT ![s] = STOP]
  /\ UNCHANGED tvars
  /\ UNCHANGED <<qvars, pvars, wvars, sexit, cvars, sig, failures, started>>

\* A failure of persist_fn that takes every saver down with it.
SaverPersistFailAll(s) ==
  /\ Runs(s)
  /\ spc[s] = "persist"
  /\ failures < MaxFailures
  /\ failures' = failures + 1
  /\ spc' = [t \in Savers |-> "exited"]
  /\ sexit' = [t \in Savers |-> IF sexit[t] = "running" THEN "failed" ELSE sexit[t]]
  /\ smsg' = [t \in Savers |-> STOP]
  /\ UNCHANGED tvars
  /\ UNCHANGED <<qvars, pvars, wvars, persisted, cvars, sig, started>>

\* persist_fn raises: nothing in run catches it, the process ends with a
\* nonzero exit code.
SaverPersistFail(s) ==
  /\ Runs(s)
  /\ spc[s] = "persist"
  /\ failures < MaxFailures
  /\ failures' = failures + 1
  /\ SaverEnd(s, "failed")
  /\ UNCHANGED tvars
  /\ UNCHANGED <<qvars, pvars, wvars, persisted, cvars, sig, started>>

\* The queue whose transport Saver.shutdown, line 105, puts 'STOP' on:
\* self.q, the queue the saver reads.
SaverShutdownQueue == OQ

\* Saver.shutdown: self.q.q.put('STOP'), straight on the transport.
SaverSignal(s) ==
  /\ sig[s] = "pending"
  /\ sexit[s] = "running"
  /\ sig' = [sig EXCEPT ![s] = "handled"]
  /\ QPut(SaverShutdownQueue, STOP, FALSE)
  /\ UNCHANGED tvars
  /\ UNCHANGED <<pw, hout, dropped, pvars, wvars, svars, cvars, failures,
                 started>>

(* ------------------------ backend.py: coordinator ----------------------- *)

Exited(p) == IF p \in Workers THEN wexit[p] /= "running" ELSE sexit[p] /= "running"

\* An exit code that is 0 however the process ended.
ExitCodeZero(p) == 0

\* The exit code multiprocessing reports for a process that ended.
ExitCode(p) ==
  LET how == IF p \in Workers THEN wexit[p] ELSE sexit[p]
  IN IF how = "ok" THEN 0 ELSE 1

\* atexit runs shutdown_gracefully: the first pair of zip(queues, processes).
CoordAtExit ==
  /\ cpc = "serve"
  /\ cpc' = "prevent"
  /\ cpair' = 1
  /\ UNCHANGED tvars
  /\ UNCHANGED <<cidx, qvars, pvars, wvars, svars, sig, failures, started>>

\* A shutdown that goes on to the signals without q.prevent_writes().
CoordSkipPreventWrites ==
  /\ cpc = "prevent"
  /\ cpc' = "kill"
  /\ cidx' = 1
  /\ UNCHANGED tvars
  /\ UNCHANGED <<cpair, qvars, pvars, wvars, svars, sig, failures, started>>

\* shutdown, line 131: q.prevent_writes()
CoordPreventWrites ==
  /\ cpc = "prevent"
  /\ pw' = prevent_writes(queues[cpair])
  /\ cpc' = "kill"
  /\ cidx' = 1
  /\ UNCHANGED tvars
  /\ UNCHANGED <<cpair, q, hin, hout, late, accepted, dropped, pvars, wvars,
                 svars, sig, failures, started>>

\* shutdown, line 133: os.kill(p.pid, signal.SIGTERM) for the next p.  The
\* signal of a process that has ended reaches no handler.
CoordKill ==
  /\ cpc = "kill"
  /\ LET p == processes[cpair][cidx]
     IN sig' = [sig EXCEPT ![p] = IF sig[p] = "none" THEN "pending" ELSE sig[p]]
  /\ IF cidx < Len(processes[cpair])
     THEN /\ cidx' = cidx + 1
          /\ UNCHANGED cpc
     ELSE /\ cidx' = 1
          /\ cpc' = "join"
  /\ UNCHANGED tvars
  /\ UNCHANGED <<cpair, qvars, pvars, wvars, svars, failures, started>>

\* A join that returns whether or not the process has ended.
CoordJoinNoWait ==
  /\ cpc = "join"
  /\ IF cidx < Len(processes[cpair])
     THEN /\ cidx' = cidx + 1
          /\ UNCHANGED <<cpc, cpair>>
     ELSE /\ cidx' = 1
          /\ IF cpair < Len(queues)
             THEN /\ cpair' = cpair + 1
                  /\ cpc' = "prevent"
             ELSE /\ cpc' = "done"
                  /\ UNCHANGED cpair
  /\ UNCHANGED tvars
  /\ UNCHANGED <<qvars, pvars, wvars, svars, sig, failures, started>>

\* shutdown, line 135: p.join() for the next p returns once p has ended;
\* after the last one shutdown_gracefully goes on to the next pair.
CoordJoin ==
  /\ cpc = "join"
  /\ Exited(processes[cpair][cidx])
  /\ IF cidx < Len(processes[cpair])
     THEN /\ cidx' = cidx + 1
          /\ UNCHANGED <<cpc, cpair>>
     ELSE /\ cidx' = 1
          /\ IF cpair < Len(queues)
             THEN /\ cpair' = cpair + 1
                  /\ cpc' = "prevent"
             ELSE /\ cpc' = "done"
                  /\ UNCHANGED cpair
  /\ UNCHANGED tvars
  /\ UNCHANGED <<qvars, pvars, wvars, svars, sig, failures, started>>

(* --------------------------- specification ------------------------------ *)

Next ==
  \/ ProducerCall
  \/ ProducerCheck
  \/ ProducerPut
  \/ \E w \in Workers : WorkerGetFlag(w)
  \/ \E w \in Workers : WorkerGetEmpty(w)
  \/ \E w \in Workers : WorkerQGet(w)
  \/ \E w \in Workers : WorkerProcess(w)
  \/ \E w \in Workers : WorkerFlushCheck(w)
  \/ \E w \in Workers : WorkerFlushPut(w)
  \/ \E w \in Workers : WorkerSignal(w)
  \/ \E s \in Savers : SaverGetFlag(s)
  \/ \E s \in Savers : SaverGetEmpty(s)
  \/ \E s \in Savers : SaverQGet(s)
  \/ \E s \in Savers : SaverPersist(s)
  \/ \E s \in Savers : SaverSignal(s)
  \/ CoordAtExit
  \/ CoordPreventWrites
  \/ CoordKill
  \/ CoordJoin

Spec == Init /\ [][Next]_vars

\* The same system with collaborators that may raise.
FailNext ==
  \/ Next
  \/ \E w \in Workers : WorkerTransformFail(w)
  \/ \E s \in Savers : SaverPersistFail(s)

FailSpec == Init /\ [][FailNext]_vars

\* The posts a client may hand to put_many in any order: three with labels
\* that normalize to the same key ("A", "a ", "A") and one with another
\* (" B").
BatchRecords == {1, 2, 3, 5}

\* Every list of at most MaxBatch different posts.
Batches ==
  UNION {{b \in [1 .. n -> BatchRecords] :
            \A i, j \in 1 .. n : i /= j => b[i] /= b[j]} : n \in 1 .. MaxBatch}

\* main has started the queues and the processes, and a client has just
\* called iqueue.put_many(posts) with some list of posts.
BatchInit ==
  /\ q = [n \in QueueNames |-> <<>>]
  /\ pw = [n \in QueueNames |-> FALSE]
  /\ ppc = "check"
  /\ \E b \in Batches : pobjs = [i \in 1 .. Len(b) |-> Post(b[i])]
  /\ offered = Len(pobjs)
  /\ wpc = [w \in Workers |-> "get"]
  /\ wmsg = [w \in Workers |-> STOP]
  /\ cache = [w \in Workers |-> <<>>]
  /\ count = [w \in Workers |-> 0]
  /\ wout = [w \in Workers |-> <<>>]
  /\ wfinal = [w \in Workers |-> FALSE]
  /\ wexit = [w \in Workers |-> "running"]
  /\ wlost = [w \in Workers |-> 0]
  /\ spc = [s \in Savers |-> "get"]
  /\ smsg = [s \in Savers |-> STOP]
  /\ sexit = [s \in Savers |-> "running"]
  /\ sig = [p \in Procs |-> "none"]
  /\ cpc = "serve"
  /\ cpair = 1
  /\ cidx = 1
  /\ hin = [n \in QueueNames |-> <<>>]
  /\ hout = [n \in QueueNames |-> <<>>]
  /\ late = [n \in QueueNames |-> {}]
  /\ accepted = {}
  /\ merged = [r \in BatchRecords |-> 0]
  /\ mergedBy = [w \in Workers |-> 0]
  /\ flushes = [w \in Workers |-> 0]
  /\ dropped = [n \in QueueNames |-> 0]
  /\ persisted = EmptyBag
  /\ failures = 0
  /\ started = [p \in Procs |-> FALSE]
  /\ cachedRecs = [w \in Workers |-> <<>>]
  /\ tpost = DefaultProcessedPost
  /\ ttop_n = TopN
  /\ tmsgs = <<>>

\* The input side at work on that list: the put_many, the workers, and the
\* coordinator's shutdown; the savers have not been scheduled yet.
BatchNext ==
  \/ ProducerCheck
  \/ ProducerPut
  \/ \E w \in Workers : WorkerGetFlag(w)
  \/ \E w \in Workers : WorkerGetEmpty(w)
  \/ \E w \in Workers : WorkerQGet(w)
  \/ \E w \in Workers : WorkerProcess(w)
  \/ \E w \in Workers : WorkerFlushCheck(w)
  \/ \E w \in Workers : WorkerFlushPut(w)
  \/ \E w \in Workers : WorkerSignal(w)
  \/ CoordAtExit
  \/ CoordPreventWrites
  \/ CoordKill
  \/ CoordJoin

BatchSpec == BatchInit /\ [][BatchNext]_vars

\* The Counters transform_for_database is called on: up to MaxWords
\* different words in any insertion order, each with a count from 1 to
\* MaxWordCount.
CounterWords == {"x", "y", "z"}

Counters ==
  UNION {{c \in [1 .. n -> CounterWords \X (1 .. MaxWordCount)] :
            \A i, j \in 1 .. n : i /= j => c[i][1] /= c[j][1]} :
         n \in 0 .. MaxWords}

\* A ProcessedPost of some worker's cache and the top_n of a call of
\* transform_for_database on it.
TransformInit ==
  /\ PipelineInit
  /\ tpost \in [publication   : {<<"A">>, <<" ", "B">>},
                entities      : Counters,
                article_count : 0 .. MaxArticles]
  /\ ttop_n \in 0 .. MaxTopGiven
  /\ tmsgs = <<>>

\* ProcessedPost.transform_for_database(top_n) returns its list.
TransformCall ==
  /\ tmsgs = <<>>
  /\ tmsgs' = transform_for_database(tpost, ttop_n)
  /\ UNCHANGED <<tpost, ttop_n>>
  /\ UNCHANGED <<qvars, pvars, wvars, svars, cvars, sig, failures, started>>

TransformNext == TransformCall

TransformSpec == TransformInit /\ [][TransformNext]_vars

(* ------------------------------ properties ------------------------------ *)

\* The queue a process reads from.
ReadQueue(p) == IF p \in Workers THEN IQ ELSE OQ

PosOf(p) == IF p \in Workers THEN wpc[p] ELSE spc[p]

\* Sum of the count payloads of the count-increment messages in a bag.
RECURSIVE CountSumOver(_, _)
CountSumOver(B, S) ==
  IF S = {} THEN 0
  ELSE LET m == CHOOSE x \in S : TRUE
       IN (IF IsCountMessage(m) THEN m[4][1] * CopiesIn(m, B) ELSE 0)
          + CountSumOver(B, S \ {m})

CountSum(B) == CountSumOver(B, BagToSet(B))

\* C1: once shutdown_gracefully has completed without a transform or
\* persistence failure, every post put on the input queue while it was
\* writable has been merged by exactly one worker, and the count payloads
\* handed to persist_fn add up to the number of those posts.
C1_Conservation ==
  (cpc = "done" /\ failures = 0) =>
    /\ \A r \in accepted : merged[r] = 1
    /\ CountSum(persisted) = Cardinality(accepted)

\* C2: a consumer inside q.get() on a queue whose writes are prevented and
\* whose transport is empty is not left there for good: something can still
\* happen in the system.
C2_DrainLiveness ==
  (\E p \in Procs : /\ PosOf(p) = "q_get"
                    /\ pw[ReadQueue(p)]
                    /\ q[ReadQueue(p)] = <<>>)
    => ENABLED Next

\* C3: a get that starts with the Event of its queue set and the transport
\* empty returns 'STOP' from the is_drained test: it never goes on to the
\* blocking q.get(), where it would wait or take an object off the transport.
C3_DrainedGetReturnsStop ==
  \A p \in Procs : started[p] => PosOf(p) /= "q_get"

\* C4: the signal handler of a worker or saver appends exactly one 'STOP' to
\* the transport of the queue that process reads, and touches no other
\* transport.
C4_WakeUpOwnQueue ==
  [][\A p \in Procs :
       (sig[p] = "pending" /\ sig'[p] = "handled")
       => /\ q'[ReadQueue(p)] = Append(q[ReadQueue(p)], STOP)
          /\ \A n \in QueueNames \ {ReadQueue(p)} : q'[n] = q[n]]_vars

\* C5: a worker that has ended after the shutdown request, not by a
\* transform failure, has left no post in an unflushed cache.
C5_FinalFlush ==
  \A w \in Workers :
    (wexit[w] \in {"ok", "sigerr"} /\ pw[IQ]) => wlost[w] = 0

\* C6: a worker that has merged n posts has entered floor(n / CacheSize)
\* threshold flushes, and its cache never aggregates more than CacheSize
\* posts.
C6_ThresholdFlush ==
  \A w \in Workers :
    /\ flushes[w] = mergedBy[w] \div CacheSize
    /\ CachedPosts(cache[w]) <= CacheSize

\* C7: writes to the output queue are prevented, and a saver is signalled,
\* only when the input queue is closed and every worker has been signalled
\* and has ended; the output queue is writable during every worker flush
\* and its put has discarded nothing.
C7_DependencyOrder ==
  /\ (pw[OQ] \/ \E s \in Savers : sig[s] /= "none")
       => /\ pw[IQ]
          /\ \A w \in Workers : sig[w] /= "none" /\ wexit[w] /= "running"
  /\ \A w \in Workers : wpc[w] \in {"flush_chk", "flush_put"} => ~pw[OQ]
  /\ dropped[OQ] = 0

\* C7 witness: a worker has flushed its cache to the output queue on the
\* way out, and the coordinator has since closed the output queue.
C7_Witness ==
  /\ pw[OQ]
  /\ \E w \in Workers : wexit[w] = "ok"
  /\ \E i \in 1 .. Len(hin[OQ]) : IsCountMessage(hin[OQ][i])

\* C8: per pair, a process is signalled only when the pair's queue is
\* closed, the joins begin only when every process of the pool has been
\* signalled, and shutdown returns only when every process has ended.
C8_PerPairOrder ==
  /\ \A k \in 1 .. Len(queues) : \A i \in 1 .. Len(processes[k]) :
       sig[processes[k][i]] /= "none" => pw[queues[k]]
  /\ cpc = "join" =>
       \A i \in 1 .. Len(processes[cpair]) : sig[processes[cpair][i]] /= "none"
  /\ \A k \in 1 .. Len(queues) :
       (cpc = "done" \/ (cpc /= "serve" /\ cpair > k)) =>
         \A i \in 1 .. Len(processes[k]) : Exited(processes[k][i])

\* C8 witness: shutdown has returned for both pairs and a handler has run.
C8_Witness ==
  /\ cpc = "done"
  /\ \E p \in Procs : sig[p] = "handled"

C10_DropOnDisable ==
  \A n \in QueueNames : late[n] = {}

\* The words DataProcessor.entities finds in the posts.
Words == {"x", "y"}

\* The count a Counter holds for word w: 0 when the word is absent.
WordCount(c, w) == IF IndexOfWord(c, w) = 0 THEN 0 ELSE c[IndexOfWord(c, w)][2]

\* A label trimmed and lower-cased.
Normalized(label) == Lower(Strip(label))

\* The posts of a list whose label normalizes to k, as a set of positions.
WithKey(recs, k) == {i \in 1 .. Len(recs) : Normalized(Publication(recs[i])) = k}

\* Sum, over a set of positions of a list of posts, of the count of word w.
RECURSIVE SumOfWord(_, _, _)
SumOfWord(recs, I, w) ==
  IF I = {} THEN 0
  ELSE LET i == CHOOSE x \in I : TRUE
       IN WordCount(EntitiesOf(recs[i]), w) + SumOfWord(recs, I \ {i}, w)

\* C11: every record of a worker's cache has as article_count the number k
\* of posts with its key merged since the cache was empty, and as entity
\* counts the sum over those k posts, word by word, whatever the order in
\* which they were merged.
C11_Aggregation ==
  \A w \in Workers : \A i \in 1 .. Len(cache[w]) :
    LET k == cache[w][i][1]
        e == cache[w][i][2]
        I == WithKey(cachedRecs[w], k)
    IN /\ e.article_count = Cardinality(I)
       /\ \A word \in Words :
            WordCount(e.entities, word) = SumOfWord(cachedRecs[w], I, word)
       /\ \A a \in 1 .. Len(e.entities) :
            /\ e.entities[a][1] \in Words
            /\ e.entities[a][2] > 0
            /\ \A b \in 1 .. Len(e.entities) :
                 a /= b => e.entities[a][1] /= e.entities[b][1]

\* C11 witness: a cache into which post 5 and then post 1, both of key "a",
\* were merged, against the order of their arrival from the client.
C11_Witness ==
  \E w \in Workers :
    /\ cachedRecs[w] = <<5, 1>>
    /\ Len(cache[w]) = 1
    /\ cache[w][1][2].article_count = 2
    /\ WordCount(cache[w][1][2].entities, "x") = 3

\* C12: between two flushes a worker's cache holds exactly one record per
\* normalized label (trimmed, lower-cased) among the posts merged: no key
\* twice, no key without a post, no post without its key, and each record
\* counts the posts whose labels normalize to its key.
C12_GroupingByKey ==
  \A w \in Workers :
    /\ \A i, j \in 1 .. Len(cache[w]) :
         i /= j => cache[w][i][1] /= cache[w][j][1]
    /\ {cache[w][i][1] : i \in 1 .. Len(cache[w])}
         = {Normalized(Publication(cachedRecs[w][i])) :
              i \in 1 .. Len(cachedRecs[w])}
    /\ \A i \in 1 .. Len(cache[w]) :
         cache[w][i][2].article_count
           = Cardinality(WithKey(cachedRecs[w], cache[w][i][1]))

\* C12 witness: the posts labelled "A" and "a " were merged into one cache
\* and share one record with article_count 2.
C12_Witness ==
  \E w \in Workers :
    /\ cachedRecs[w] \in {<<1, 2>>, <<2, 1>>}
    /\ Publication(1) /= Publication(2)
    /\ Len(cache[w]) = 1
    /\ cache[w][1][2].article_count = 2

\* The worker is inside flush_cache.
InFlush(w) == wpc[w] \in {"flush_chk", "flush_put"}

\* The positions of a list of messages that hold a message of key k which
\* is, or is not, a count-increment message.
MessagesOf(msgs, k, isCount) ==
  {i \in 1 .. Len(msgs) : msgs[i][1] = k /\ IsCountMessage(msgs[i]) = isCount}

\* The messages flush_cache hands to put_many are complete for cache c: for
\* every record of c exactly one count-increment message, carrying its
\* article_count, and at most TopN per-entity messages, and nothing else.
CompleteFor(msgs, c) ==
  /\ \A i \in 1 .. Len(c) :
       /\ Cardinality(MessagesOf(msgs, c[i][1], TRUE)) = 1
       /\ \A j \in MessagesOf(msgs, c[i][1], TRUE) :
            msgs[j] = <<c[i][1], "None", <<>>, <<c[i][2].article_count>> >>
       /\ Cardinality(MessagesOf(msgs, c[i][1], FALSE)) <= TopN
       /\ Cardinality(MessagesOf(msgs, c[i][1], FALSE)) <= Len(c[i][2].entities)
  /\ \A j \in 1 .. Len(msgs) : \E i \in 1 .. Len(c) : msgs[j][1] = c[i][1]

\* C13: flush_cache starts with a list of messages that is complete for the
\* cache, hands them to put one after the other while the cache stays as it
\* is, and when it returns the cache is empty.
C13_FlushCompleteness ==
  [][\A w \in Workers :
       /\ (~InFlush(w) /\ InFlush(w)') => CompleteFor(wout'[w], cache'[w])
       /\ (InFlush(w) /\ InFlush(w)') =>
            /\ cache'[w] = cache[w]
            /\ wout'[w] = wout[w] \/ wout'[w] = Tail(wout[w])
       /\ (InFlush(w) /\ ~InFlush(w)' /\ sig'[w] = sig[w]) =>
            /\ wout[w] = <<>>
            /\ cache'[w] = <<>>]_vars

\* C13 witness: a flush of a cache of two records has handed its last
\* message to put and is about to return.
C13_Witness ==
  \E w \in Workers :
    /\ wpc[w] = "flush_chk"
    /\ wout[w] = <<>>
    /\ Len(cache[w]) = 2
    /\ hin[OQ] /= <<>>

\* Number of messages other than 'STOP' in a sequence of queue objects.
DataCount(seq) == Cardinality({i \in 1 .. Len(seq) : seq[i] /= STOP})

\* The savers whose persist_fn raised.
FailedSavers == {s \in Savers : sexit[s] = "failed"}

\* The step in which persist_fn raises in saver s and ends it.
PersistFailureOf(s) == sexit[s] = "running" /\ sexit'[s] = "failed"

\* C14: when persist_fn raises in a saver, that saver ends with a nonzero
\* exit code and the step changes neither another saver nor a transport;
\* a running saver at q.get() can still dequeue from a transport that
\* holds something; and once one saver has failed and the others have
\* ended on 'STOP', no message is left on the output queue and all but
\* the one in flight in the failed saver have been handed to persist_fn.
C14_SaverFailureIsolation ==
  /\ [][\A s \in Savers :
          PersistFailureOf(s) =>
            /\ ExitCode(s)' /= 0
            /\ q' = q
            /\ \A t \in Savers \ {s} :
                 spc'[t] = spc[t] /\ sexit'[t] = sexit[t] /\ smsg'[t] = smsg[t]]_vars
  /\ [](\A t \in Savers :
          (sexit[t] = "running" /\ spc[t] = "q_get" /\ Runs(t) /\ q[OQ] /= <<>>)
            => ENABLED SaverQGet(t))
  /\ []((Cardinality(FailedSavers) = 1
           /\ \A t \in Savers \ FailedSavers : sexit[t] = "ok")
          => /\ DataCount(q[OQ]) = 0
             /\ BagCardinality(persisted) + 1 = DataCount(hin[OQ]))

\* C14 witness: one saver has failed, the other has persisted at least one
\* message and ended on 'STOP', and shutdown has returned.
C14_Witness ==
  /\ cpc = "done"
  /\ Cardinality(FailedSavers) = 1
  /\ \A t \in Savers \ FailedSavers : sexit[t] = "ok"
  /\ BagCardinality(persisted) >= 1

\* C15: an Event that is set stays set in every step; the step that sets
\* one leaves the transports as they are; and prevent_writes called on a
\* queue whose Event is set gives the same Events again.
C15_FlagMonotonic ==
  [][/\ \A n \in QueueNames : pw[n] => pw'[n]
     /\ pw' /= pw => q' = q
     /\ \A n \in QueueNames : pw[n] => prevent_writes(n) = pw]_vars

\* C15 witness: both Events are set and processes have run on after that.
C15_Witness ==
  /\ pw[IQ]
  /\ pw[OQ]
  /\ \E s \in Savers : sexit[s] = "ok"

\* How a process ended ("running" while it has not).
ExitOf(p) == IF p \in Workers THEN wexit[p] ELSE sexit[p]

\* The get of process p returns 'STOP' in the next step of p: the drained
\* test succeeds or 'STOP' is at the head of the transport.
GetsStop(p) ==
  \/ PosOf(p) = "get_empty" /\ empty(ReadQueue(p))
  \/ PosOf(p) = "q_get" /\ ~empty(ReadQueue(p))
       /\ TransportNext(q[ReadQueue(p)]) = STOP

\* C16: a process ends with exit code 0 only out of a get that returned
\* 'STOP', a worker only at the end of its final flush; a process whose
\* collaborator raises ends with a nonzero exit code and the failing step
\* puts nothing back on a transport; a process that has ended stays ended
\* as it ended; no post is merged twice, and every message dequeued from
\* the output queue is persisted once, in flight, or gone with a failed
\* saver.
C16_ExitStates ==
  [][/\ \A p \in Procs :
          /\ (ExitOf(p) = "running" /\ ExitOf(p)' = "ok") =>
               /\ ExitCode(p)' = 0
               /\ IF p \in Workers
                  THEN wfinal[p] /\ wpc[p] = "flush_chk" /\ wout[p] = <<>>
                  ELSE GetsStop(p)
          /\ (ExitOf(p) = "running" /\ ExitOf(p)' = "failed") =>
               /\ ExitCode(p)' /= 0
               /\ q' = q /\ hin' = hin /\ hout' = hout
               /\ merged' = merged /\ persisted' = persisted
          /\ ExitOf(p) /= "running" =>
               ExitOf(p)' = ExitOf(p) /\ PosOf(p)' = "exited"
     /\ \A r \in DOMAIN merged : merged[r] <= 1
     /\ BagCardinality(persisted) + Cardinality(FailedSavers)
          + Cardinality({s \in Savers : spc[s] = "persist"})
          = DataCount(hout[OQ])]_vars

\* C16 witness: a worker ended on a failure of process_message, the other
\* processes went on, and shutdown has returned with a saver ended on 'STOP'.
C16_Witness ==
  /\ cpc = "done"
  /\ \E w \in Workers : wexit[w] = "failed"
  /\ \E s \in Savers : sexit[s] = "ok"
  /\ BagCardinality(persisted) >= 1

\* C17: once shutdown_gracefully has started it completes: as long as it
\* has not returned, some process or the coordinator can still take a step.
C17_ShutdownTerminates ==
  cpc /= "serve" => (cpc = "done" \/ ENABLED Next)

\* How often object m occurs in a sequence of queue objects.
Occurrences(seq, m) == Cardinality({i \in 1 .. Len(seq) : seq[i] = m})

\* The savers that hold message m between q.get and persist_fn.
Holding(m) == {s \in Savers : spc[s] = "persist" /\ smsg[s] = m}

\* C18: every message dequeued from the output queue is held by one saver
\* or has been handed to persist_fn once, as often as it was dequeued and
\* no more; a saver holds a message only between its q.get and its
\* persist_fn; nothing is persisted that was not dequeued.
C18_PersistedOnce ==
  /\ \A i \in 1 .. Len(hout[OQ]) :
       hout[OQ][i] /= STOP =>
         CopiesIn(hout[OQ][i], persisted) + Cardinality(Holding(hout[OQ][i]))
           = Occurrences(hout[OQ], hout[OQ][i])
  /\ \A m \in BagToSet(persisted) : Occurrences(hout[OQ], m) >= 1
  /\ \A s \in Savers : spc[s] /= "persist" => smsg[s] = STOP

\* C18 witness: two messages have been persisted and a third is held by a
\* saver.
C18_Witness ==
  /\ BagCardinality(persisted) >= 2
  /\ \E s \in Savers : spc[s] = "persist"

\* C19: the list transform_for_database returns holds min(|E|, top_n)
\* per-entity messages, each with the key of the post, a different word of
\* its Counter E and that word's count, in non-increasing order of count,
\* no word left out having a larger count than a word put in, and after
\* them one message (key, None, None, {count: article_count}).
C19_TransformResult ==
  tmsgs /= <<>> =>
    LET E == tpost.entities
        n == Len(tmsgs) - 1
        key == Normalized(tpost.publication)
    IN /\ n = (IF Len(E) < ttop_n THEN Len(E) ELSE ttop_n)
       /\ tmsgs[n + 1] = <<key, "None", <<>>, <<tpost.article_count>> >>
       /\ \A i \in 1 .. n :
            /\ tmsgs[i][1] = key
            /\ tmsgs[i][2] = "ent"
            /\ tmsgs[i][3] = <<"hash", tmsgs[i][4][1]>>
            /\ \E a \in 1 .. Len(E) : tmsgs[i][4] = <<E[a][1], E[a][2]>>
       /\ \A i, j \in 1 .. n :
            i < j => /\ tmsgs[i][4][1] /= tmsgs[j][4][1]
                     /\ tmsgs[i][4][2] >= tmsgs[j][4][2]
       /\ \A a \in 1 .. Len(E) :
            (\A i \in 1 .. n : tmsgs[i][4][1] /= E[a][1])
              => \A i \in 1 .. n : E[a][2] <= tmsgs[i][4][2]

\* C19 witness: a Counter of three words whose last has the highest count,
\* called with top_n = 2, has returned two per-entity messages and the
\* count-increment message.
C19_Witness ==
  /\ Len(tmsgs) = 3
  /\ ttop_n = 2
  /\ Len(tpost.entities) = 3
  /\ tpost.entities[3][2] > tpost.entities[1][2]
  /\ tmsgs[1][4][1] = tpost.entities[3][1]

\* The last position of a non-empty set of positions.
LastOf(I) == CHOOSE i \in I : \A j \in I : j <= i

\* C20: every record of a worker's cache carries the label of the last
\* post merged into it, its own pub_key is the key of the slot it is
\* stored under, and every message a flush has still to put carries the
\* key of a slot of the cache, which is the normalized label of every post
\* merged into that slot.
C20_KeyConsistency ==
  \A w \in Workers :
    /\ \A i \in 1 .. Len(cache[w]) :
         LET k == cache[w][i][1]
             e == cache[w][i][2]
             I == WithKey(cachedRecs[w], k)
         IN /\ I /= {}
            /\ e.publication = Publication(cachedRecs[w][LastOf(I)])
            /\ pub_key(e) = k
            /\ \A j \in 1 .. Len(cachedRecs[w]) :
                 j \notin I => pub_key(process_message(cachedRecs[w][j])) /= k
    /\ InFlush(w) =>
         \A j \in 1 .. Len(wout[w]) :
           \E i \in 1 .. Len(cache[w]) : wout[w][j][1] = cache[w][i][1]

\* C20 witness: the post labelled "a " was merged last into the record of
\* the post labelled "A", and the flush of that cache has messages to put.
C20_Witness ==
  \E w \in Workers :
    /\ cachedRecs[w] = <<1, 2>>
    /\ cache[w][1][2].publication = <<"a", " ">>
    /\ cache[w][1][1] = <<"a">>
    /\ InFlush(w)
    /\ wout[w] /= <<>>

\* C21: on the transport of the output queue no message stands behind a
\* 'STOP', and once a saver has ended on 'STOP' or on the drained test the
\* transport holds no message, so none is left when the last saver has
\* ended.
C21_SentinelsBehindData ==
  /\ \A i, j \in 1 .. Len(q[OQ]) :
       (i < j /\ q[OQ][i] = STOP) => q[OQ][j] = STOP
  /\ (\E s \in Savers : sexit[s] = "ok") => DataCount(q[OQ]) = 0

\* C21 witness: a saver's handler has put its 'STOP' on the output queue
\* while a message flushed by a worker was still waiting there.
C21_Witness ==
  /\ Len(q[OQ]) >= 2
  /\ q[OQ][1] /= STOP
  /\ q[OQ][Len(q[OQ])] = STOP
  /\ \E s \in Savers : sig[s] = "handled"

====
